---- MODULE Spec2Model ----
(***************************************************************************)
(* responsive-csx: the shared Device snapshot (DeviceDetectionService),    *)
(* the scaling functions that read it, and the useResponsiveDimensions     *)
(* hook that refreshes it on the host's 'change' event.                    *)
(*                                                                         *)
(* A JavaScript number is modelled as an exact rational <<n, d>> with      *)
(* d > 0 in lowest terms (so equal numbers are equal tuples); logical      *)
(* pixel sizes reported by the host are integers.  An optional argument    *)
(* or an optional field is a sequence of length 0 (undefined) or 1.        *)
(***************************************************************************)
EXTENDS Integers, Sequences, FiniteSets, TLC

VARIABLES
  Device,       \* the exported DeviceDetectionService instance
  Dimensions,   \* host: what Dimensions.get('window' | 'screen') returns
  PixelRatio,   \* host: what PixelRatio.get() / getFontScale() return
  Platform,     \* host: Platform.OS
  pending,      \* host: a dimension change not yet delivered to JavaScript
  listeners,    \* host: components registered on Dimensions' 'change' event
  status,       \* per component: position in the hook's life cycle
  dimensions,   \* per component: the useState value the hook returns
  invoked,      \* components whose onChange ran in the latest emit
  midUpdate,    \* components torn down while a change was pending
  call          \* the latest call of the exported API and its result

vars == <<Device, Dimensions, PixelRatio, Platform, pending, listeners,
          status, dimensions, invoked, midUpdate, call>>

hostVars == <<Dimensions, PixelRatio, Platform, pending>>
hookVars == <<listeners, status, dimensions, invoked, midUpdate>>

----------------------------------------------------------------------------
(* Numbers *)

RECURSIVE GCD(_, _)
GCD(a, b) == IF b = 0 THEN a ELSE GCD(b, a % b)

Abs(a) == IF a < 0 THEN -a ELSE a

\* n / d for integers n and d > 0
Rat(n, d) == LET g == GCD(Abs(n), d) IN <<n \div g, d \div g>>

Num(k) == <<k, 1>>

\* a * b
Mul(a, b) ==
  LET g1 == GCD(Abs(a[1]), b[2])
      g2 == GCD(Abs(b[1]), a[2])
  IN  <<(a[1] \div g1) * (b[1] \div g2), (a[2] \div g2) * (b[2] \div g1)>>

\* a / b for b > 0
Div(a, b) == Mul(a, <<b[2], b[1]>>)

\* a + b
Add(a, b) ==
  LET g == GCD(a[2], b[2])
  IN  Rat(a[1] * (b[2] \div g) + b[1] * (a[2] \div g), (a[2] \div g) * b[2])

\* a - b
Sub(a, b) == Add(a, <<-b[1], b[2]>>)

\* a <= b
Le(a, b) ==
  LET g == GCD(a[2], b[2])
  IN  a[1] * (b[2] \div g) <= b[1] * (a[2] \div g)

Lt(a, b) == ~Le(b, a)

\* Math.max(a, b), Math.min(a, b)
MathMax(a, b) == IF Le(a, b) THEN b ELSE a
MathMin(a, b) == IF Le(a, b) THEN a ELSE b

\* Math.round(a): the nearest integer, a half rounding up
MathRound(a) ==
  LET q == a[1] \div a[2]
      r == a[1] - q * a[2]
  IN  IF 2 * r >= a[2] THEN q + 1 ELSE q

\* Math.sqrt(a), for the squares of rationals (the host values used are)
ISqrt(n) == CHOOSE k \in 0..n : k * k = n
MathSqrt(a) == <<ISqrt(a[1]), ISqrt(a[2])>>

----------------------------------------------------------------------------
(* Program constants *)

PhoneMaxWidth == 600
SmallPhoneMaxWidth == 390
SmallTabletMaxWidth == 720
PhoneRefWidth == 375
PhoneRefHeight == 812
TabletRefWidth == 768
TabletRefHeight == 1024
DpiBaseline == 160
WidthWeight == <<6, 10>>
HeightWeight == <<4, 10>>
BaseUnitMin == <<3, 4>>
BaseUnitMax == <<3, 2>>

----------------------------------------------------------------------------
(* Inputs *)

MaxSize == 3
MaxComponents == 2

Size(w, h) == [width |-> w, height |-> h]

\* windows with a width on each side of every threshold, squares, both
\* orientations, and the extremes
Windows ==
  { Size(1, 1), Size(1, 10000), Size(375, 812), Size(390, 600),
    Size(391, 812), Size(600, 600), Size(600, 1024), Size(601, 1024),
    Size(720, 1024), Size(721, 1024), Size(768, 1024), Size(1024, 768),
    Size(10000, 1), Size(10000, 10000) }
Screens == {Size(375, 812), Size(1024, 1366)}

Geometry(w, s) == [window |-> w, screen |-> s]

\* what the host reports when the module is loaded
LoadGeometries ==
  { Geometry(Size(375, 812), Size(375, 812)),
    Geometry(Size(1024, 768), Size(1024, 1366)) }

\* every window, on either screen
AllGeometries == {Geometry(w, s) : w \in Windows, s \in Screens}

\* font scales are squares, so that Math.sqrt of them is a rational
PixelRatios ==
  { [density |-> 1, fontScale |-> <<81, 100>>],
    [density |-> 2, fontScale |-> <<1, 1>>],
    [density |-> 3, fontScale |-> <<9, 4>>] }

Platforms == {"ios", "android"}

\* design sizes handed to the scaling functions
Sizes == {8 * k : k \in -1..MaxSize}

\* { min?, max? } objects, and no object at all
Bounds(lo, hi) == <<[min |-> lo, max |-> hi]>>
Opts ==
  { <<>>, Bounds(<<>>, <<>>), Bounds(<<Num(12)>>, <<>>), Bounds(<<>>, <<Num(20)>>),
    Bounds(<<Num(12)>>, <<Num(20)>>), Bounds(<<Num(20)>>, <<Num(12)>>) }

Components == 1..MaxComponents

\* one window of each size class, on either side of the 600 threshold
ApiWindows == {Size(375, 812), Size(600, 1024), Size(601, 1024), Size(1024, 768)}
ApiSizes == {-8, 8, 8 * MaxSize}

\* the optional factor of moderateScale and of scaleTablet
Factors == {<<>>, <<Num(0)>>, <<<<1, 4>>>>, <<Num(1)>>}
TabletFactors == {<<>>, <<Num(2)>>}

\* arguments of clampValue, clampMin and clampMax
ClampNumbers == {Num(-8), Num(4), Num(12), Num(20)}

\* payloads of deviceValue, each a value with its typeof: column counts,
\* style names
Payload(type, value) == [type |-> type, value |-> value]
NumberPayloads == {Payload("number", 2), Payload("number", 4)}
StringPayloads == {Payload("string", "row"), Payload("string", "column")}

----------------------------------------------------------------------------
(* DeviceDetectionService *)

\* an omitted window falling back on the host's current one
SetGeometryDefaulting(d, window, screen) ==
  LET w == IF window # <<>> THEN window[1] ELSE Dimensions.window
      d1 == [d EXCEPT !.width = w.width, !.height = w.height]
  IN  IF screen # <<>>
      THEN [d1 EXCEPT !.screenWidth = screen[1].width,
                      !.screenHeight = screen[1].height]
      ELSE d1

\* if (window) { this.width = ...; this.height = ... }  if (screen) { ... }
SetGeometry(d, window, screen) ==
  LET d1 == IF window # <<>>
            THEN [d EXCEPT !.width = window[1].width,
                           !.height = window[1].height]
            ELSE d
  IN  IF screen # <<>>
      THEN [d1 EXCEPT !.screenWidth = screen[1].width,
                      !.screenHeight = screen[1].height]
      ELSE d1

\* the density and the font scale kept from the call before
ReadPixelRatioSkipped(d) == d

\* this.pixelDensity = PixelRatio.get(); this.fontScale = PixelRatio.getFontScale()
ReadPixelRatio(d) ==
  [d EXCEPT !.pixelDensity = PixelRatio.density,
            !.fontScale = PixelRatio.fontScale]

IntMax(a, b) == IF a >= b THEN a ELSE b
IntMin(a, b) == IF a <= b THEN a ELSE b

SetAspectRatio(d) ==
  [d EXCEPT !.aspectRatio =
     Rat(IntMax(d.width, d.height), IntMin(d.width, d.height))]

\* diagonalInches is the square root of
\*   (width / (density*160))^2 + (height / (density*160))^2;
\* the field holds that sum, which determines the value.
SetDiagonalInches(d) ==
  LET widthInches == Rat(d.width, d.pixelDensity * DpiBaseline)
      heightInches == Rat(d.height, d.pixelDensity * DpiBaseline)
  IN  [d EXCEPT !.diagonalInches =
         Add(Mul(widthInches, widthInches), Mul(heightInches, heightInches))]

\* the threshold taken as exclusive
SetDeviceTypeStrict(d) ==
  IF d.width < PhoneMaxWidth
  THEN [d EXCEPT !.isPhone = TRUE, !.isTablet = FALSE]
  ELSE [d EXCEPT !.isPhone = FALSE, !.isTablet = TRUE]

SetDeviceType(d) ==
  IF d.width <= PhoneMaxWidth
  THEN [d EXCEPT !.isPhone = TRUE, !.isTablet = FALSE]
  ELSE [d EXCEPT !.isPhone = FALSE, !.isTablet = TRUE]

SetPhoneSizes(d) ==
  [d EXCEPT !.isSmallPhone = d.isPhone /\ d.width <= SmallPhoneMaxWidth,
            !.isLargePhone = d.isPhone /\ d.width > SmallPhoneMaxWidth]

\* the small-tablet threshold taken as exclusive
SetTabletSizesStrict(d) ==
  [d EXCEPT !.isSmallTablet = d.isTablet /\ d.width < SmallTabletMaxWidth,
            !.isLargeTablet = d.isTablet /\ d.width > SmallTabletMaxWidth]

SetTabletSizes(d) ==
  [d EXCEPT !.isSmallTablet = d.isTablet /\ d.width <= SmallTabletMaxWidth,
            !.isLargeTablet = d.isTablet /\ d.width > SmallTabletMaxWidth]

RefWidth(d) == IF d.isTablet THEN TabletRefWidth ELSE PhoneRefWidth
RefHeight(d) == IF d.isTablet THEN TabletRefHeight ELSE PhoneRefHeight

\* this.baseUnit = widthBaseUnit * 0.6 + heightBaseUnit * 0.4
BlendBaseUnit(d) ==
  LET widthBaseUnit == Rat(d.width, RefWidth(d))
      heightBaseUnit == Rat(d.height, RefHeight(d))
  IN  [d EXCEPT !.baseUnit =
         Add(Mul(widthBaseUnit, WidthWeight), Mul(heightBaseUnit, HeightWeight))]

\* the blend left unclamped
ClampBaseUnitSkipped(d) == d

\* this.baseUnit = Math.min(Math.max(this.baseUnit, 0.75), 1.5)
ClampBaseUnit(d) ==
  [d EXCEPT !.baseUnit = MathMin(MathMax(d.baseUnit, BaseUnitMin), BaseUnitMax)]

\* the base unit computed before the device type is refreshed
UpdateMetricsStaleType(d, window, screen) ==
  SetTabletSizes(SetPhoneSizes(SetDeviceType(ClampBaseUnit(BlendBaseUnit(
    SetDiagonalInches(SetAspectRatio(ReadPixelRatio(
      SetGeometry(d, window, screen)))))))))

UpdateMetrics(d, window, screen) ==
  ClampBaseUnit(BlendBaseUnit(SetTabletSizes(SetPhoneSizes(SetDeviceType(
    SetDiagonalInches(SetAspectRatio(ReadPixelRatio(
      SetGeometry(d, window, screen)))))))))

isLandscape(d) == d.width > d.height
\* a square window reported as neither orientation
isPortraitStrict(d) == d.height > d.width

isPortrait(d) == d.height >= d.width

\* The instance the constructor leaves: the fields it assigns, the derived
\* fields (declared with "!", unassigned until updateMetrics runs) as FALSE / 0.
Constructed(window, screen) ==
  UpdateMetrics(
    [ width |-> window.width, height |-> window.height,
      screenWidth |-> screen.width, screenHeight |-> screen.height,
      pixelDensity |-> PixelRatio.density, fontScale |-> PixelRatio.fontScale,
      isIOS |-> Platform = "ios", isAndroid |-> Platform = "android",
      isPhone |-> FALSE, isTablet |-> FALSE,
      isSmallPhone |-> FALSE, isLargePhone |-> FALSE,
      isSmallTablet |-> FALSE, isLargeTablet |-> FALSE,
      aspectRatio |-> Num(0), diagonalInches |-> Num(0), baseUnit |-> Num(0) ],
    <<window>>, <<screen>>)

----------------------------------------------------------------------------
(* Scaling utilities: they read the exported Device *)

\* opts.max ignored
applyClampMinOnly(value, opts) ==
  IF opts = <<>> THEN value
  ELSE IF opts[1].min # <<>> THEN MathMax(opts[1].min[1], value) ELSE value

\* opts.max applied before opts.min
applyClampMaxFirst(value, opts) ==
  IF opts = <<>> THEN value
  ELSE LET v1 == IF opts[1].max # <<>>
                 THEN MathMin(opts[1].max[1], value)
                 ELSE value
       IN  IF opts[1].min # <<>> THEN MathMax(opts[1].min[1], v1) ELSE v1

\* applyClamp(value, opts)
applyClamp(value, opts) ==
  IF opts = <<>> THEN value
  ELSE LET v1 == IF opts[1].min # <<>>
                 THEN MathMax(opts[1].min[1], value)
                 ELSE value
       IN  IF opts[1].max # <<>> THEN MathMin(opts[1].max[1], v1) ELSE v1

\* Math.floor in the place of Math.round
RoundTenthDown(x) == Rat(Mul(x, Num(10))[1] \div Mul(x, Num(10))[2], 10)

\* Math.round(x * 10) / 10
RoundTenth(x) == Rat(MathRound(Mul(x, Num(10))), 10)

scale(size, opts) ==
  LET raw == RoundTenth(Mul(Num(size), Device.baseUnit))
  IN  applyClamp(raw, opts)

\* scale(x, opts) for a size x that is not an integer
scaleNumber(x, opts) ==
  LET raw == RoundTenth(Mul(x, Device.baseUnit))
  IN  applyClamp(raw, opts)

FontMultiplier ==
  IF Device.isSmallPhone THEN <<9, 10>>
  ELSE IF Device.isLargePhone THEN <<1, 1>>
  ELSE IF Device.isSmallTablet THEN <<13, 10>>
  ELSE IF Device.isLargeTablet THEN <<15, 10>>
  ELSE <<1, 1>>

\* the 0.7 - 1.6 bound left out
FontClampSkipped(raw, size) == raw

FontClamp(raw, size) ==
  LET minSize == Mul(Num(size), <<7, 10>>)
      maxSize == Mul(Num(size), <<16, 10>>)
  IN  MathMin(MathMax(raw, minSize), maxSize)

scaleFontSize(size, opts) ==
  LET adjustedSize == Mul(Num(size), FontMultiplier)
      widthRatio == Rat(Device.width, RefWidth(Device))
      heightRatio == Rat(Device.height, RefHeight(Device))
      fontRatio == Add(Mul(widthRatio, <<65, 100>>), Mul(heightRatio, <<35, 100>>))
      accessibilityScale == MathSqrt(Device.fontScale)
      raw == RoundTenth(Mul(Mul(adjustedSize, fontRatio), accessibilityScale))
  IN  applyClamp(FontClamp(raw, size), opts)

\* the baseline ratio, the adjustment per device type left out
LineHeightRatioBaseline == <<5, 4>>

LineHeightRatio ==
  IF Device.isSmallPhone THEN <<6, 5>>
  ELSE IF Device.isLargePhone THEN <<5, 4>>
  ELSE IF Device.isSmallTablet THEN <<27, 20>>
  ELSE IF Device.isLargeTablet THEN <<29, 20>>
  ELSE <<5, 4>>

getLineHeight(baseFontSize) ==
  LET scaledFont == scaleFontSize(baseFontSize, <<>>)
      fontScaleAdjustment == MathMin(Device.fontScale, <<7, 5>>)
      adjustedRatio == Mul(LineHeightRatio, Div(fontScaleAdjustment, <<6, 5>>))
      lineHeight == MathRound(Mul(scaledFont, adjustedRatio))
  IN  Num(lineHeight)

IconMultiplier ==
  IF Device.isSmallPhone THEN <<9, 10>>
  ELSE IF Device.isLargePhone THEN <<1, 1>>
  ELSE IF Device.isSmallTablet THEN <<23, 20>>
  ELSE IF Device.isLargeTablet THEN <<5, 4>>
  ELSE <<1, 1>>

\* rounded first, the 0.8 - 1.5 bound applied to the rounded value
getIconSizeRoundFirst(baseSize) ==
  LET widthRatio == Rat(Device.width, RefWidth(Device))
      heightRatio == Rat(Device.height, RefHeight(Device))
      baseScale == Add(Mul(widthRatio, <<65, 100>>), Mul(heightRatio, <<35, 100>>))
      scaled1 == Mul(Mul(Num(baseSize), baseScale), IconMultiplier)
      fontScaleAdjust == MathMin(Device.fontScale, <<13, 10>>)
      scaled2 == Num(MathRound(Mul(scaled1, Mul(fontScaleAdjust, <<95, 100>>))))
      min == Mul(Num(baseSize), <<8, 10>>)
      max == Mul(Num(baseSize), <<15, 10>>)
  IN  MathMin(MathMax(scaled2, min), max)

getIconSize(baseSize) ==
  LET widthRatio == Rat(Device.width, RefWidth(Device))
      heightRatio == Rat(Device.height, RefHeight(Device))
      baseScale == Add(Mul(widthRatio, <<65, 100>>), Mul(heightRatio, <<35, 100>>))
      scaled1 == Mul(Mul(Num(baseSize), baseScale), IconMultiplier)
      fontScaleAdjust == MathMin(Device.fontScale, <<13, 10>>)
      scaled2 == Mul(scaled1, Mul(fontScaleAdjust, <<95, 100>>))
      min == Mul(Num(baseSize), <<8, 10>>)
      max == Mul(Num(baseSize), <<15, 10>>)
      scaled3 == MathMin(MathMax(scaled2, min), max)
  IN  Num(MathRound(scaled3))

verticalScale(size, opts) ==
  LET heightRatio == Rat(Device.height, RefHeight(Device))
      raw == RoundTenth(Mul(Num(size), heightRatio))
  IN  applyClamp(raw, opts)

\* the factor weighing the width, not the height
moderateScaleSwapped(size, factor, opts) ==
  LET f == IF factor = <<>> THEN <<1, 2>> ELSE factor[1]
      widthFactor == Rat(Device.width, RefWidth(Device))
      heightFactor == Rat(Device.height, RefHeight(Device))
      scaleFactor == Add(Mul(widthFactor, f), Mul(heightFactor, Sub(Num(1), f)))
      raw == RoundTenth(Mul(Num(size), scaleFactor))
  IN  applyClamp(raw, opts)

\* the bounds applied to the size, before the scaling
moderateScaleClampFirst(size, factor, opts) ==
  LET f == IF factor = <<>> THEN <<1, 2>> ELSE factor[1]
      widthFactor == Rat(Device.width, RefWidth(Device))
      heightFactor == Rat(Device.height, RefHeight(Device))
      scaleFactor == Add(Mul(widthFactor, Sub(Num(1), f)), Mul(heightFactor, f))
  IN  RoundTenth(Mul(applyClamp(Num(size), opts), scaleFactor))

\* factor: number = 0.5
moderateScale(size, factor, opts) ==
  LET f == IF factor = <<>> THEN <<1, 2>> ELSE factor[1]
      widthFactor == Rat(Device.width, RefWidth(Device))
      heightFactor == Rat(Device.height, RefHeight(Device))
      scaleFactor == Add(Mul(widthFactor, Sub(Num(1), f)), Mul(heightFactor, f))
      raw == RoundTenth(Mul(Num(size), scaleFactor))
  IN  applyClamp(raw, opts)

\* the factor applied on phones as well
scaleTabletAlways(size, tabletFactor, opts) ==
  LET t == IF tabletFactor = <<>> THEN <<13, 10>> ELSE tabletFactor[1]
      raw == RoundTenth(Mul(Mul(Num(size), t), Device.baseUnit))
  IN  applyClamp(raw, opts)

\* tabletFactor: number = 1.3
scaleTablet(size, tabletFactor, opts) ==
  LET t == IF tabletFactor = <<>> THEN <<13, 10>> ELSE tabletFactor[1]
      adjustedSize == IF Device.isTablet THEN Mul(Num(size), t) ELSE Num(size)
      raw == RoundTenth(Mul(adjustedSize, Device.baseUnit))
  IN  applyClamp(raw, opts)

\* the two values taken the wrong way round
deviceValueSwapped(phoneValue, tabletValue) ==
  IF Device.isTablet THEN phoneValue ELSE tabletValue

deviceValue(phoneValue, tabletValue) ==
  IF Device.isTablet THEN tabletValue ELSE phoneValue

\* the lower bound added to the capped value instead of applied to it
clampValueOffset(min, value, max) == Add(min, MathMin(value, max))

\* the upper bound applied last, as the options clamp does
clampValueMaxLast(min, value, max) == MathMin(MathMax(min, value), max)

clampValue(min, value, max) == MathMax(min, MathMin(value, max))

clampMin(min, value) == MathMax(min, value)

clampMax(value, max) == MathMin(value, max)

----------------------------------------------------------------------------
(* The record of the latest API call *)

MetricsCall(window, screen, repeated) ==
  [ op |-> "updateMetrics", window |-> window, screen |-> screen,
    repeated |-> repeated, size |-> 0, opts |-> <<>>, result |-> Num(0),
    args |-> <<>> ]

FunctionCall(op, size, opts, result) ==
  [ op |-> op, window |-> <<>>, screen |-> <<>>, repeated |-> FALSE,
    size |-> size, opts |-> opts, result |-> result, args |-> <<>> ]

\* a call with arguments besides the size and the clamp options
ArgsCall(op, args, size, opts, result, repeated) ==
  [ op |-> op, window |-> <<>>, screen |-> <<>>, repeated |-> repeated,
    size |-> size, opts |-> opts, result |-> result, args |-> args ]

\* clampValue(min, value, max) on the result of the call before, cl, with
\* the bounds of cl
Reclamps(cl, min, value, max) ==
  /\ cl.op = "clampValue"
  /\ cl.args[1] = min
  /\ cl.args[3] = max
  /\ cl.result = value

\* updateMetrics(window, screen) on d, the call before being cl, has the
\* arguments of cl and finds the host's density and font scale as cl read them
Repeats(d, cl, window, screen) ==
  /\ cl.op = "updateMetrics"
  /\ cl.window = window
  /\ cl.screen = screen
  /\ d.pixelDensity = PixelRatio.density
  /\ d.fontScale = PixelRatio.fontScale

----------------------------------------------------------------------------
(* useResponsiveDimensions *)

\* the useState initializer of the first render
InitialDimensions ==
  [ window |-> Dimensions.window, screen |-> Dimensions.screen,
    isLandscape |-> isLandscape(Device), isPortrait |-> isPortrait(Device) ]

\* the orientation flags read before Device.updateMetrics has run
onChangeStaleFlags(c, st, dims) ==
  LET window == dims.window
      screen == dims.screen
      d == UpdateMetrics(st.Device, <<window>>, <<screen>>)
  IN  [ Device |-> d,
        dimensions |->
          [st.dimensions EXCEPT ![c] =
             <<[ window |-> window, screen |-> screen,
                 isLandscape |-> isLandscape(st.Device),
                 isPortrait |-> isPortrait(st.Device) ]>>],
        call |-> MetricsCall(<<window>>, <<screen>>,
                   Repeats(st.Device, st.call, <<window>>, <<screen>>)) ]

\* onChange of one component, the host's store holding dims; st is the
\* module's state: the Device, the components' useState values, the call record
onChange(c, st, dims) ==
  LET window == dims.window
      screen == dims.screen
      d == UpdateMetrics(st.Device, <<window>>, <<screen>>)
  IN  [ Device |-> d,
        dimensions |->
          [st.dimensions EXCEPT ![c] =
             <<[ window |-> window, screen |-> screen,
                 isLandscape |-> isLandscape(d), isPortrait |-> isPortrait(d) ]>>],
        call |-> MetricsCall(<<window>>, <<screen>>,
                   Repeats(st.Device, st.call, <<window>>, <<screen>>)) ]

\* the host's emit('change'): every registered listener is called in turn
RECURSIVE Emit(_, _, _)
Emit(ls, st, dims) ==
  IF ls = {} THEN st
  ELSE LET c == CHOOSE x \in ls : TRUE
       IN  Emit(ls \ {c}, onChange(c, st, dims), dims)

\* Dimensions.addEventListener('change', onChange)
addEventListener(ls, c) == ls \cup {c}

\* a cleanup that leaves the listener registered
removeNothing(ls, c) == ls

\* a cleanup that removes every listener of the event
removeAll(ls, c) == {}

\* subscription.remove()
remove(ls, c) == ls \ {c}

----------------------------------------------------------------------------
(* Actions *)

\* a caller's Device.updateMetrics(window?, screen?)
UpdateMetricsCall(window, screen) ==
  /\ Device' = UpdateMetrics(Device, window, screen)
  /\ call' = MetricsCall(window, screen, Repeats(Device, call, window, screen))
  /\ UNCHANGED <<hostVars, hookVars>>

\* the host's pixel density or font scale changes (a display or a setting)
HostSetPixelRatio(pr) ==
  /\ pr # PixelRatio
  /\ PixelRatio' = pr
  /\ UNCHANGED <<Device, Dimensions, Platform, pending, hookVars, call>>

ScaleCall(size, opts) ==
  /\ call' = FunctionCall("scale", size, opts, scale(size, opts))
  /\ UNCHANGED <<Device, hostVars, hookVars>>

ScaleFontSizeCall(size, opts) ==
  /\ call' = FunctionCall("scaleFontSize", size, opts, scaleFontSize(size, opts))
  /\ UNCHANGED <<Device, hostVars, hookVars>>

GetLineHeightCall(baseFontSize) ==
  /\ call' = FunctionCall("getLineHeight", baseFontSize, <<>>,
                          getLineHeight(baseFontSize))
  /\ UNCHANGED <<Device, hostVars, hookVars>>

GetIconSizeCall(baseSize) ==
  /\ call' = FunctionCall("getIconSize", baseSize, <<>>, getIconSize(baseSize))
  /\ UNCHANGED <<Device, hostVars, hookVars>>

VerticalScaleCall(size, opts) ==
  /\ call' = FunctionCall("verticalScale", size, opts, verticalScale(size, opts))
  /\ UNCHANGED <<Device, hostVars, hookVars>>

ModerateScaleCall(size, factor, opts) ==
  /\ call' = ArgsCall("moderateScale", <<factor>>, size, opts,
                      moderateScale(size, factor, opts), FALSE)
  /\ UNCHANGED <<Device, hostVars, hookVars>>

\* a scaleTablet that first refreshes the snapshot from the host
ScaleTabletCallRefreshing(size, tabletFactor, opts) ==
  /\ Device' = UpdateMetrics(Device, <<Dimensions.window>>, <<Dimensions.screen>>)
  /\ call' = ArgsCall("scaleTablet", <<tabletFactor>>, size, opts,
                      scaleTablet(size, tabletFactor, opts), FALSE)
  /\ UNCHANGED <<hostVars, hookVars>>

ScaleTabletCall(size, tabletFactor, opts) ==
  /\ call' = ArgsCall("scaleTablet", <<tabletFactor>>, size, opts,
                      scaleTablet(size, tabletFactor, opts), FALSE)
  /\ UNCHANGED <<Device, hostVars, hookVars>>

DeviceValueCall(phoneValue, tabletValue) ==
  /\ call' = ArgsCall("deviceValue", <<phoneValue, tabletValue>>, 0, <<>>,
                      deviceValue(phoneValue, tabletValue), FALSE)
  /\ UNCHANGED <<Device, hostVars, hookVars>>

ClampValueCall(min, value, max) ==
  /\ call' = ArgsCall("clampValue", <<min, value, max>>, 0, <<>>,
                      clampValue(min, value, max), Reclamps(call, min, value, max))
  /\ UNCHANGED <<Device, hostVars, hookVars>>

ClampMinCall(min, value) ==
  /\ call' = ArgsCall("clampMin", <<min, value>>, 0, <<>>, clampMin(min, value), FALSE)
  /\ UNCHANGED <<Device, hostVars, hookVars>>

ClampMaxCall(value, max) ==
  /\ call' = ArgsCall("clampMax", <<value, max>>, 0, <<>>, clampMax(value, max), FALSE)
  /\ UNCHANGED <<Device, hostVars, hookVars>>

\* the window or the screen changes on the native side; the 'change' event
\* is on its way to JavaScript
HostResize(geom) ==
  /\ pending = <<>>
  /\ geom # Dimensions
  /\ pending' = <<geom>>
  /\ invoked' = {}
  /\ midUpdate' = {}
  /\ UNCHANGED <<Device, Dimensions, PixelRatio, Platform, listeners, status,
                 dimensions, call>>

\* the event arrives: the host stores the new sizes and emits 'change'
DeliverChange ==
  /\ pending # <<>>
  /\ LET st == Emit(listeners,
                    [Device |-> Device, dimensions |-> dimensions, call |-> call],
                    pending[1])
     IN  /\ Device' = st.Device
         /\ dimensions' = st.dimensions
         /\ call' = st.call
  /\ Dimensions' = pending[1]
  /\ pending' = <<>>
  /\ invoked' = listeners
  /\ UNCHANGED <<PixelRatio, Platform, listeners, status, midUpdate>>

\* first render of a component that calls the hook
Render(c) ==
  /\ status[c] = "unmounted"
  /\ status' = [status EXCEPT ![c] = "rendered"]
  /\ dimensions' = [dimensions EXCEPT ![c] = <<InitialDimensions>>]
  /\ invoked' = {}
  /\ midUpdate' = midUpdate \ {c}
  /\ UNCHANGED <<Device, hostVars, listeners, call>>

\* the effect of the committed component runs
RunEffect(c) ==
  /\ status[c] = "rendered"
  /\ status' = [status EXCEPT ![c] = "mounted"]
  /\ listeners' = addEventListener(listeners, c)
  /\ invoked' = {}
  /\ UNCHANGED <<Device, hostVars, dimensions, midUpdate, call>>

\* the component is torn down: the effect's cleanup runs
Unmount(c) ==
  /\ status[c] = "mounted"
  /\ status' = [status EXCEPT ![c] = "unmounted"]
  /\ listeners' = remove(listeners, c)
  /\ dimensions' = [dimensions EXCEPT ![c] = <<>>]
  /\ invoked' = {}
  /\ midUpdate' = IF pending # <<>> THEN midUpdate \cup {c} ELSE midUpdate \ {c}
  /\ UNCHANGED <<Device, hostVars, call>>

\* a later render of a mounted component: useState returns the stored value,
\* useCallback the same onChange, and the effect, its dependency unchanged,
\* is neither cleaned up nor run again
Rerender(c) ==
  /\ status[c] = "mounted"
  /\ invoked' = {}
  /\ UNCHANGED <<Device, hostVars, listeners, status, dimensions, midUpdate, call>>

----------------------------------------------------------------------------
(* Specifications *)

InitHost(geoms, ratios, oses) ==
  /\ Dimensions \in geoms
  /\ PixelRatio \in ratios
  /\ Platform \in oses
  /\ pending = <<>>

InitModule ==
  /\ Device = Constructed(Dimensions.window, Dimensions.screen)
  /\ call = MetricsCall(<<Dimensions.window>>, <<Dimensions.screen>>, FALSE)
  /\ listeners = {}
  /\ status = [c \in Components |-> "unmounted"]
  /\ dimensions = [c \in Components |-> <<>>]
  /\ invoked = {}
  /\ midUpdate = {}

Optional(S) == {<<>>} \cup {<<x>> : x \in S}

\* the snapshot under direct calls of updateMetrics
Init == InitHost(LoadGeometries, PixelRatios, Platforms) /\ InitModule

Next ==
  \/ \E w \in Optional(Windows), s \in Optional(Screens) : UpdateMetricsCall(w, s)
  \/ \E pr \in PixelRatios : HostSetPixelRatio(pr)

Spec == Init /\ [][Next]_vars

\* the scaling functions on every snapshot the constructor can leave
InitScale == InitHost(AllGeometries, PixelRatios, Platforms) /\ InitModule

NextScale ==
  \/ \E size \in Sizes, opts \in Opts : ScaleCall(size, opts)
  \/ \E size \in Sizes, opts \in Opts : ScaleFontSizeCall(size, opts)

SpecScale == InitScale /\ [][NextScale]_vars

\* the exported functions between calls of updateMetrics, the module loaded
\* on a small phone
InitApi ==
  /\ InitHost({Geometry(Size(375, 812), Size(375, 812))}, PixelRatios, {"ios"})
  /\ InitModule

NextApi ==
  \/ \E w \in ApiWindows : UpdateMetricsCall(<<w>>, <<>>)
  \/ \E size \in ApiSizes, opts \in Opts : ScaleCall(size, opts)
  \/ \E size \in ApiSizes, opts \in Opts : VerticalScaleCall(size, opts)
  \/ \E size \in ApiSizes, factor \in Factors, opts \in Opts :
        ModerateScaleCall(size, factor, opts)
  \/ \E size \in ApiSizes, opts \in Opts : ScaleFontSizeCall(size, opts)
  \/ \E baseFontSize \in ApiSizes : GetLineHeightCall(baseFontSize)
  \/ \E baseSize \in ApiSizes : GetIconSizeCall(baseSize)
  \/ \E size \in ApiSizes, tabletFactor \in TabletFactors, opts \in Opts :
        ScaleTabletCall(size, tabletFactor, opts)
  \/ \E phoneValue, tabletValue \in NumberPayloads :
        DeviceValueCall(phoneValue, tabletValue)
  \/ \E phoneValue, tabletValue \in StringPayloads :
        DeviceValueCall(phoneValue, tabletValue)
  \/ \E min, value, max \in ClampNumbers : ClampValueCall(min, value, max)
  \/ \E min, value \in ClampNumbers : ClampMinCall(min, value)
  \/ \E value, max \in ClampNumbers : ClampMaxCall(value, max)

SpecApi == InitApi /\ [][NextApi]_vars

\* the hook: components mounting and unmounting while the host resizes
HookGeometries ==
  { Geometry(Size(375, 812), Size(375, 812)),
    Geometry(Size(1024, 768), Size(1024, 1366)) }

InitHook ==
  /\ InitHost(HookGeometries, {[density |-> 2, fontScale |-> <<1, 1>>]}, {"ios"})
  /\ InitModule

NextHook ==
  \/ \E geom \in HookGeometries : HostResize(geom)
  \/ DeliverChange
  \/ \E c \in Components : Render(c)
  \/ \E c \in Components : RunEffect(c)
  \/ \E c \in Components : Rerender(c)
  \/ \E c \in Components : Unmount(c)

SpecHook == InitHook /\ [][NextHook]_vars

----------------------------------------------------------------------------
(* Claims *)

\* C1: in every state reached by updateMetrics calls exactly one of isPhone
\* and isTablet is true, and isPhone holds iff width <= 600 (isTablet iff
\* width > 600).
C1_PhoneXorTablet ==
  /\ Device.isPhone # Device.isTablet
  /\ Device.isPhone <=> Device.width <= 600
  /\ Device.isTablet <=> Device.width > 600

\* a call has put the width on the threshold, and the device is a phone
C1_Witness ==
  /\ call.op = "updateMetrics" /\ call.window # <<>>
  /\ Device.width = 600 /\ Device.isPhone /\ ~Device.isTablet

\* C2: exactly one of the four size flags is true; it agrees with the
\* phone/tablet flag and with the width thresholds 390, 600 and 720.
C2_OneSizeClass ==
  /\ Cardinality({f \in {"isSmallPhone", "isLargePhone", "isSmallTablet",
                         "isLargeTablet"} : Device[f]}) = 1
  /\ Device.isSmallPhone <=> Device.width <= 390
  /\ Device.isLargePhone <=> (390 < Device.width /\ Device.width <= 600)
  /\ Device.isSmallTablet <=> (600 < Device.width /\ Device.width <= 720)
  /\ Device.isLargeTablet <=> Device.width > 720
  /\ (Device.isSmallPhone \/ Device.isLargePhone) <=> Device.isPhone
  /\ (Device.isSmallTablet \/ Device.isLargeTablet) <=> Device.isTablet

\* a call has put the width on the small-tablet threshold
C2_Witness ==
  /\ call.op = "updateMetrics" /\ call.window # <<>>
  /\ Device.width = 720 /\ Device.isSmallTablet /\ Device.isTablet

\* C3: after construction and after any updateMetrics calls with positive
\* sizes, width 1 and width 10000 included, 0.75 <= baseUnit <= 1.5.
C3_BaseUnitInRange ==
  /\ Le(<<3, 4>>, Device.baseUnit)
  /\ Le(Device.baseUnit, <<3, 2>>)

\* the widest window, whose blend exceeds 1.5
C3_Witness ==
  /\ call.op = "updateMetrics"
  /\ Device.width = 10000 /\ Device.height = 10000
  /\ Device.baseUnit = <<3, 2>>

BothBounds(opts) == opts # <<>> /\ opts[1].min # <<>> /\ opts[1].max # <<>>

\* C4 as stated: scale(size, {min, max}) returns a result with
\* min <= result <= max for every pair of bounds supplied together.
C4_ScaleWithinBounds ==
  (call.op = "scale" /\ BothBounds(call.opts)) =>
     /\ Le(call.opts[1].min[1], call.result)
     /\ Le(call.result, call.opts[1].max[1])

\* C4 amended: scale(size, {min, max}) returns a result with
\* min <= result <= max for every pair of bounds with min <= max.
C4_ScaleWithinOrderedBounds ==
  ( /\ call.op = "scale" /\ BothBounds(call.opts)
    /\ Le(call.opts[1].min[1], call.opts[1].max[1]) ) =>
     /\ Le(call.opts[1].min[1], call.result)
     /\ Le(call.result, call.opts[1].max[1])

\* scale(16, {min: 12, max: 20}) where 16 * baseUnit exceeds 20
C4_Witness ==
  /\ call.op = "scale" /\ call.size = 16
  /\ call.opts = Bounds(<<Num(12)>>, <<Num(20)>>)
  /\ Lt(Num(20), Mul(Num(16), Device.baseUnit))
  /\ call.result = Num(20)

NoCallerClamp(opts) ==
  opts = <<>> \/ (opts[1].min = <<>> /\ opts[1].max = <<>>)

\* C5 as stated: for every size, device class, window and font scale,
\* scaleFontSize(size) without a caller clamp lies in [0.7*size, 1.6*size].
C5_FontSizeBounded ==
  (call.op = "scaleFontSize" /\ NoCallerClamp(call.opts)) =>
     /\ Le(Mul(Num(call.size), <<7, 10>>), call.result)
     /\ Le(call.result, Mul(Num(call.size), <<16, 10>>))

\* C5 amended: for every size >= 0, device class, window and font scale,
\* scaleFontSize(size) without a caller clamp lies in [0.7*size, 1.6*size].
C5_FontSizeBoundedNonNegative ==
  (call.op = "scaleFontSize" /\ NoCallerClamp(call.opts) /\ call.size >= 0) =>
     /\ Le(Mul(Num(call.size), <<7, 10>>), call.result)
     /\ Le(call.result, Mul(Num(call.size), <<16, 10>>))

\* scaleFontSize(16) on a large tablet, cut down to 1.6 * 16
C5_Witness ==
  /\ call.op = "scaleFontSize" /\ call.opts = <<>> /\ call.size = 16
  /\ Device.isLargeTablet
  /\ call.result = <<128, 5>>

\* C6: once a host dimension change has been processed, Device.width and
\* Device.height are the host's window size and the derived fields
\* (classification, baseUnit, orientation) are those of that window,
\* whatever mounts and unmounts came before.
C6_SnapshotFollowsHost ==
  pending = <<>> =>
     /\ Device.width = Dimensions.window.width
     /\ Device.height = Dimensions.window.height
     /\ Device.isTablet <=> Dimensions.window.width > 600
     /\ isLandscape(Device) <=>
          Dimensions.window.width > Dimensions.window.height
     /\ Device.baseUnit =
          Constructed(Dimensions.window, Dimensions.screen).baseUnit

C8_Idempotent ==
  [][(call'.op = "updateMetrics" /\ call'.repeated) => Device' = Device]_vars

\* a repeated call, after a call that moved the width across 600
C8_Witness ==
  /\ call.op = "updateMetrics" /\ call.repeated
  /\ call.window # <<>>
  /\ Device.isTablet # (Dimensions.window.width > 600)

\* C9: updateMetrics(window?, screen?) leaves width and height alone when
\* window is omitted, screenWidth and screenHeight alone when screen is
\* omitted, and a supplied argument overwrites its own pair of fields.
C9_PartialUpdate ==
  [][call'.op = "updateMetrics" =>
       /\ IF call'.window = <<>>
          THEN Device'.width = Device.width /\ Device'.height = Device.height
          ELSE /\ Device'.width = call'.window[1].width
               /\ Device'.height = call'.window[1].height
       /\ IF call'.screen = <<>>
          THEN /\ Device'.screenWidth = Device.screenWidth
               /\ Device'.screenHeight = Device.screenHeight
          ELSE /\ Device'.screenWidth = call'.screen[1].width
               /\ Device'.screenHeight = call'.screen[1].height]_vars

\* a call without window has kept a window that is not the host's, and
\* overwritten the screen
C9_Witness ==
  /\ call.op = "updateMetrics" /\ call.window = <<>> /\ call.screen # <<>>
  /\ Device.width # Dimensions.window.width
  /\ Device.screenWidth = call.screen[1].width
  /\ Device.screenWidth # Dimensions.screen.width

\* C10: isLandscape is width > height and isPortrait is height >= width;
\* they are never both true, and a square window is portrait.
C10_Orientation ==
  /\ isLandscape(Device) <=> Device.width > Device.height
  /\ isPortrait(Device) <=> Device.height >= Device.width
  /\ ~(isLandscape(Device) /\ isPortrait(Device))
  /\ Device.width = Device.height => isPortrait(Device)

\* a call has made the window square
C10_Witness ==
  /\ call.op = "updateMetrics" /\ call.window # <<>>
  /\ Device.width = Device.height
  /\ isPortrait(Device) /\ ~isLandscape(Device)

\* C11: clampValue is idempotent, for every triple and also when min > max:
\* clamping with the same bounds the value a clampValue call returned
\* returns that value again.
C11_ClampValueIdempotent ==
  (call.op = "clampValue" /\ call.repeated) => call.result = call.args[2]

\* a clamped value has been clamped again, under a min above the max
C11_Witness ==
  /\ call.op = "clampValue" /\ call.repeated
  /\ Lt(call.args[3], call.args[1])
  /\ call.result = call.args[1]

\* C12: deviceValue(phoneValue, tabletValue) returns phoneValue when
\* Device.isTablet is false and tabletValue when it is true, whatever the
\* type of the payload, and isTablet is the classification updateMetrics
\* last computed: width above 600.
C12_DeviceValueFollowsSnapshot ==
  call.op = "deviceValue" =>
    /\ ~Device.isTablet => call.result = call.args[1]
    /\ Device.isTablet => call.result = call.args[2]
    /\ Device.isTablet <=> Device.width > PhoneMaxWidth

\* the module was loaded on a phone, updateMetrics has since moved the width
\* above 600, and deviceValue has picked the tablet's string
C12_Witness ==
  /\ call.op = "deviceValue"
  /\ Dimensions.window.width <= PhoneMaxWidth
  /\ Device.width > PhoneMaxWidth
  /\ call.args[1].type = "string" /\ call.args[1].value = "row"
  /\ call.args[2].value = "column"
  /\ call.result = call.args[2]

\* C13: scale(size) without a clamp is round(size * baseUnit * 10) / 10, the
\* multiple of a tenth nearest to size * baseUnit (a half rounding up); on a
\* 375x812 window the device is a small phone, baseUnit is 1.0 and
\* scale(16) is 16.0.
C13_ScaleRoundsToTenth ==
  /\ (call.op = "scale" /\ NoCallerClamp(call.opts)) =>
        LET x == Mul(Mul(Num(call.size), Device.baseUnit), Num(10))
            tenths == Mul(call.result, Num(10))
        IN  /\ tenths[2] = 1
            /\ Le(tenths, Add(x, <<1, 2>>))
            /\ Lt(Add(x, <<1, 2>>), Num(tenths[1] + 1))
  /\ (Device.width = 375 /\ Device.height = 812) =>
        /\ Device.isPhone /\ Device.isSmallPhone
        /\ Device.baseUnit = Num(1)
        /\ (call.op = "scale" /\ NoCallerClamp(call.opts) /\ call.size = 16) =>
              call.result = Num(16)

\* scale(16) has been called without a clamp on a 375x812 window
C13_Witness ==
  /\ call.op = "scale" /\ call.opts = <<>> /\ call.size = 16
  /\ Device.width = 375 /\ Device.height = 812
  /\ call.result = Num(16)

ScalingOps ==
  {"scale", "verticalScale", "moderateScale", "scaleFontSize", "scaleTablet"}

\* what the function of the call cl returns when called without options
Unclamped(cl) ==
  CASE cl.op = "scale" -> scale(cl.size, <<>>)
    [] cl.op = "verticalScale" -> verticalScale(cl.size, <<>>)
    [] cl.op = "moderateScale" -> moderateScale(cl.size, cl.args[1], <<>>)
    [] cl.op = "scaleFontSize" -> scaleFontSize(cl.size, <<>>)
    [] cl.op = "scaleTablet" -> scaleTablet(cl.size, cl.args[1], <<>>)

\* C14: for scale, verticalScale, moderateScale, scaleFontSize and
\* scaleTablet the optional clamp is the last step, on the rounded result r:
\* with only min the call returns max(r, min), with only max it returns
\* min(r, max), and with no options or an empty object it returns r.
C14_ClampIsLastStep ==
  call.op \in ScalingOps =>
    LET r == Unclamped(call)
        given == call.opts # <<>>
        hasMin == given /\ call.opts[1].min # <<>>
        hasMax == given /\ call.opts[1].max # <<>>
    IN  /\ (~hasMin /\ ~hasMax) => call.result = r
        /\ (hasMin /\ ~hasMax) =>
              call.result = IF Le(r, call.opts[1].min[1])
                            THEN call.opts[1].min[1] ELSE r
        /\ (~hasMin /\ hasMax) =>
              call.result = IF Le(call.opts[1].max[1], r)
                            THEN call.opts[1].max[1] ELSE r

\* moderateScale with a factor and only a min, its rounded result below the
\* min: the min is returned
C14_Witness ==
  /\ call.op = "moderateScale" /\ call.args[1] # <<>>
  /\ call.opts # <<>> /\ call.opts[1].min # <<>> /\ call.opts[1].max = <<>>
  /\ call.size > 0
  /\ Lt(Unclamped(call), call.opts[1].min[1])
  /\ call.result = call.opts[1].min[1]

ReadingOps ==
  ScalingOps \cup {"getLineHeight", "getIconSize", "deviceValue", "clampValue",
                   "clampMin", "clampMax"}

\* C15: no call of scale, verticalScale, moderateScale, scaleFontSize,
\* getLineHeight, getIconSize, scaleTablet, deviceValue, clampValue, clampMin
\* or clampMax changes a field of Device; a step that changes Device is a
\* call of updateMetrics.
C15_OnlyUpdateMetricsWrites ==
  [][ /\ call'.op \in ReadingOps => Device' = Device
      /\ Device' # Device => call'.op = "updateMetrics" ]_vars

\* a function has been called on a snapshot that updateMetrics had moved
\* away from the host's window
C15_Witness ==
  /\ call.op \in ReadingOps
  /\ call.op = "scaleTablet"
  /\ Device.width # Dimensions.window.width


C17_MaxWinsOverMin ==
  (/\ call.op \in ScalingOps
   /\ BothBounds(call.opts)
   /\ Lt(call.opts[1].max[1], call.opts[1].min[1])) =>
     call.result = call.opts[1].max[1]

\* verticalScale called with min 20 above max 12, its unclamped result
\* below both: the max is returned
C17_Witness ==
  /\ call.op = "verticalScale"
  /\ BothBounds(call.opts)
  /\ Lt(call.opts[1].max[1], call.opts[1].min[1])
  /\ Lt(Unclamped(call), call.opts[1].max[1])
  /\ call.result = call.opts[1].max[1]

\* clamp(0.6 * w / Wref + 0.4 * h / Href, 0.75, 1.5), the references being
\* the tablet's (768, 1024) or the phone's (375, 812)
BlendFor(w, h, tablet) ==
  LET Wref == IF tablet THEN 768 ELSE 375
      Href == IF tablet THEN 1024 ELSE 812
      blend == Rat(6 * w * Href + 4 * h * Wref, 10 * Wref * Href)
  IN  IF Lt(blend, <<3, 4>>) THEN <<3, 4>>
      ELSE IF Lt(<<3, 2>>, blend) THEN <<3, 2>>
      ELSE blend

\* C18: after every updateMetrics call baseUnit is
\* clamp(0.6 * width / Wref + 0.4 * height / Href, 0.75, 1.5) with the
\* references of the classification computed in that call from the new
\* width (tablet iff width > 600), not of the one held before the call.
C18_BaseUnitUsesNewClass ==
  /\ Device.baseUnit = BlendFor(Device.width, Device.height, Device.width > 600)
  /\ Device.isTablet <=> Device.width > 600

\* the module was loaded on a phone and a call has moved the window to a
\* tablet's, where the phone's references give another base unit
C18_Witness ==
  /\ call.op = "updateMetrics" /\ call.window # <<>>
  /\ Dimensions.window.width <= 600
  /\ Device.width > 600
  /\ Lt(<<3, 4>>, Device.baseUnit) /\ Lt(Device.baseUnit, <<3, 2>>)
  /\ Device.baseUnit # BlendFor(Device.width, Device.height, FALSE)

\* C19: when a change notification has been delivered to a registered
\* component, updateMetrics has run with the new window and screen before
\* the component's state was published: the published sizes are the host's
\* new ones, Device holds them, and the published isLandscape and isPortrait
\* are those of the new geometry.
C19_PublishedAfterUpdate ==
  \A c \in invoked :
    LET v == dimensions[c][1]
    IN  /\ v.window = Dimensions.window /\ v.screen = Dimensions.screen
        /\ Device.width = v.window.width /\ Device.height = v.window.height
        /\ Device.screenWidth = v.screen.width
        /\ Device.screenHeight = v.screen.height
        /\ v.isLandscape <=> v.window.width > v.window.height
        /\ v.isPortrait <=> v.window.height >= v.window.width

\* a rotation to landscape has been delivered to a mounted component
C19_Witness ==
  /\ call.op = "updateMetrics"
  /\ \E c \in invoked :
        /\ status[c] = "mounted"
        /\ dimensions[c][1].isLandscape /\ ~dimensions[c][1].isPortrait
        /\ dimensions[c][1].window = Size(1024, 768)

\* C20: after any sequence of mounts, re-renders and unmounts the number of
\* listeners registered on 'change' is the number of mounted components (a
\* component is mounted once its mount effect has run): each mounted
\* component holds a subscription and no other component does.
C20_OneListenerPerMounted ==
  /\ Cardinality(listeners) =
       Cardinality({c \in Components : status[c] = "mounted"})
  /\ \A c \in Components : status[c] = "mounted" => c \in listeners
  /\ \A c \in Components : status[c] = "unmounted" => c \notin listeners

\* one component is mounted and holds the only subscription, another has
\* been mounted and torn down
C20_Witness ==
  \E c1, c2 \in Components :
    /\ status[c1] = "mounted" /\ listeners = {c1}
    /\ status[c2] = "unmounted" /\ c2 \in midUpdate

\* C21: every updateMetrics call, with or without arguments, leaves
\* Device.pixelDensity and Device.fontScale at the host's values of the time
\* of the call (a step that is not the host changing them is a call).
C21_PixelRatioReadEachCall ==
  [][PixelRatio' = PixelRatio =>
       /\ call'.op = "updateMetrics"
       /\ Device'.pixelDensity = PixelRatio.density
       /\ Device'.fontScale = PixelRatio.fontScale]_vars

\* a call without arguments that found the host's density or font scale
\* changed, or followed a call with arguments, has left the host's values
C21_Witness ==
  /\ call.op = "updateMetrics" /\ call.window = <<>> /\ call.screen = <<>>
  /\ ~call.repeated
  /\ Device.pixelDensity = PixelRatio.density
  /\ Device.fontScale = PixelRatio.fontScale
  /\ Device.width = Dimensions.window.width
  /\ Device.screenWidth = Dimensions.screen.width

\* r is the multiple of a tenth nearest to x, a half rounding up
NearestTenth(r, x) ==
  LET tenths == Mul(r, Num(10))
      x10 == Add(Mul(x, Num(10)), <<1, 2>>)
  IN  /\ tenths[2] = 1
      /\ Le(tenths, x10)
      /\ Lt(x10, Num(tenths[1] + 1))

\* width / (isTablet ? 768 : 375) and height / (isTablet ? 1024 : 812)
WidthRatio == Rat(Device.width, IF Device.isTablet THEN 768 ELSE 375)
HeightRatio == Rat(Device.height, IF Device.isTablet THEN 1024 ELSE 812)

\* C22: moderateScale(size, factor) without a clamp is
\* round(size * (widthRatio * (1 - factor) + heightRatio * factor) * 10) / 10,
\* factor being 0.5 when omitted; with factor 0 it is the width scaling
\* alone, with factor 1 it is verticalScale(size), and verticalScale(size)
\* is round(size * heightRatio * 10) / 10.
C22_ModerateScaleBlend ==
  /\ (call.op = "moderateScale" /\ NoCallerClamp(call.opts)) =>
        LET factor == IF call.args[1] = <<>> THEN <<1, 2>> ELSE call.args[1][1]
            blend == Add(Mul(WidthRatio, Sub(Num(1), factor)),
                         Mul(HeightRatio, factor))
        IN  /\ NearestTenth(call.result, Mul(Num(call.size), blend))
            /\ factor = Num(0) =>
                  NearestTenth(call.result, Mul(Num(call.size), WidthRatio))
            /\ factor = Num(1) =>
                  call.result = verticalScale(call.size, <<>>)
  /\ (call.op = "verticalScale" /\ NoCallerClamp(call.opts)) =>
        NearestTenth(call.result, Mul(Num(call.size), HeightRatio))

\* moderateScale called with factor 1 on a window whose width and height
\* ratios differ: it returns the vertical scaling, not the width's
C22_Witness ==
  /\ call.op = "moderateScale" /\ call.opts = <<>>
  /\ call.args[1] = <<Num(1)>>
  /\ call.size > 0
  /\ call.result = verticalScale(call.size, <<>>)
  /\ ~NearestTenth(call.result, Mul(Num(call.size), WidthRatio))

\* C23: scaleTablet(size, tabletFactor, opts) is scale(size * tabletFactor,
\* opts) when Device.isTablet is true and scale(size, opts), whatever the
\* tabletFactor, when it is false; an omitted tabletFactor is 1.3.
C23_ScaleTabletIsScale ==
  call.op = "scaleTablet" =>
    LET tabletFactor == IF call.args[1] = <<>> THEN <<13, 10>> ELSE call.args[1][1]
    IN  /\ ~Device.isTablet => call.result = scale(call.size, call.opts)
        /\ Device.isTablet =>
              call.result = scaleNumber(Mul(Num(call.size), tabletFactor), call.opts)
        /\ (Device.isTablet /\ tabletFactor = Num(2)) =>
              call.result = scale(2 * call.size, call.opts)

\* scaleTablet called without a tabletFactor on a tablet: the result is that
\* of scale on 1.3 times the size, and not that of scale on the size
C23_Witness ==
  /\ call.op = "scaleTablet" /\ call.args[1] = <<>>
  /\ Device.isTablet
  /\ call.size > 0
  /\ call.result = scaleNumber(Mul(Num(call.size), <<13, 10>>), call.opts)
  /\ call.result # scale(call.size, call.opts)

\* r is the integer nearest to x, a half rounding up
NearestInteger(r, x) ==
  /\ r[2] = 1
  /\ Le(r, Add(x, <<1, 2>>))
  /\ Lt(Add(x, <<1, 2>>), Num(r[1] + 1))

\* how many of the four size classes the snapshot is in
SizeClassCount ==
  Cardinality({k \in 1..4 :
    <<Device.isSmallPhone, Device.isLargePhone,
      Device.isSmallTablet, Device.isLargeTablet>>[k]})

\* C24: getLineHeight(baseFontSize) is the integer
\* round(scaleFontSize(baseFontSize) * ratio * min(fontScale, 1.4) / 1.2),
\* ratio being 1.2 on a small phone, 1.25 on a large phone, 1.35 on a small
\* tablet and 1.45 on a large tablet; every reachable snapshot selects
\* exactly one of the four.
C24_LineHeight ==
  /\ SizeClassCount = 1
  /\ call.op = "getLineHeight" =>
        LET ratio == IF Device.isSmallPhone THEN <<6, 5>>
                     ELSE IF Device.isLargePhone THEN <<5, 4>>
                     ELSE IF Device.isSmallTablet THEN <<27, 20>>
                     ELSE <<29, 20>>
            capped == IF Lt(Device.fontScale, <<7, 5>>)
                      THEN Device.fontScale ELSE <<7, 5>>
            x == Mul(Mul(Mul(scaleFontSize(call.size, <<>>), ratio), capped),
                     <<5, 6>>)
        IN  NearestInteger(call.result, x)

\* getLineHeight called on a large tablet under a font scale above the 1.4
\* cap
C24_Witness ==
  /\ call.op = "getLineHeight" /\ call.size > 0
  /\ Device.isLargeTablet
  /\ Lt(<<7, 5>>, Device.fontScale)
  /\ NearestInteger(call.result,
        Mul(Mul(scaleFontSize(call.size, <<>>), <<29, 20>>), <<7, 6>>))

\* baseSize * (0.65 * widthRatio + 0.35 * heightRatio) * m
\*   * min(fontScale, 1.3) * 0.95
IconScaled(baseSize) ==
  LET m == IF Device.isSmallPhone THEN <<9, 10>>
           ELSE IF Device.isLargePhone THEN <<1, 1>>
           ELSE IF Device.isSmallTablet THEN <<23, 20>>
           ELSE <<5, 4>>
      blend == Add(Mul(<<13, 20>>, WidthRatio), Mul(<<7, 20>>, HeightRatio))
      capped == IF Lt(Device.fontScale, <<13, 10>>)
                THEN Device.fontScale ELSE <<13, 10>>
  IN  Mul(Mul(Mul(Mul(Num(baseSize), blend), m), capped), <<19, 20>>)

\* clamp(x, lo, hi): the lower bound applied first, then the upper
Clamp(x, lo, hi) ==
  LET y == IF Lt(x, lo) THEN lo ELSE x
  IN  IF Lt(hi, y) THEN hi ELSE y

\* C25: getIconSize(baseSize) is round(clamp(baseSize * (0.65 * widthRatio
\* + 0.35 * heightRatio) * m * min(fontScale, 1.3) * 0.95, 0.8 * baseSize,
\* 1.5 * baseSize)), m being 0.9, 1.0, 1.15 or 1.25 by size class: the
\* value is clamped first and the clamped value rounded to an integer.
C25_IconSize ==
  call.op = "getIconSize" =>
    NearestInteger(call.result,
      Clamp(IconScaled(call.size), Mul(<<4, 5>>, Num(call.size)),
            Mul(<<3, 2>>, Num(call.size))))

\* getIconSize called where the scaled size is below 0.8 * baseSize and that
\* bound is not an integer: the bound, rounded, is returned
C25_Witness ==
  /\ call.op = "getIconSize" /\ call.size > 0
  /\ Lt(IconScaled(call.size), Mul(<<4, 5>>, Num(call.size)))
  /\ Mul(<<4, 5>>, Num(call.size))[2] # 1
  /\ call.result = Num(MathRound(Mul(<<4, 5>>, Num(call.size))))

\* C26: the object useResponsiveDimensions returns is consistent in every
\* state, the first render included: its isLandscape is its window.width >
\* its window.height, and its isPortrait is its window.height >= its
\* window.width.
C26_ReturnedValueConsistent ==
  \A c \in Components :
    dimensions[c] # <<>> =>
      LET v == dimensions[c][1]
      IN  /\ v.isLandscape <=> v.window.width > v.window.height
          /\ v.isPortrait <=> v.window.height >= v.window.width

\* C27: clampValue(min, value, max) returns a result >= min, a result <= max
\* when min <= max, and min when min > max, where the options clamp of a
\* scaling function returns max: clampValue(min, scale(x), max) and
\* scale(x, {min, max}) are equal exactly when min <= max.
C27_ClampValueAgainstOptions ==
  /\ call.op = "clampValue" =>
        LET min == call.args[1]
            max == call.args[3]
        IN  /\ Le(min, call.result)
            /\ Le(min, max) => Le(call.result, max)
            /\ Lt(max, min) => call.result = min
  /\ (call.op = "scale" /\ BothBounds(call.opts)) =>
        LET min == call.opts[1].min[1]
            max == call.opts[1].max[1]
        IN  /\ (call.result = clampValue(min, scale(call.size, <<>>), max))
                  <=> Le(min, max)
            /\ Lt(max, min) =>
                  /\ call.result = max
                  /\ clampValue(min, scale(call.size, <<>>), max) = min

\* scale called with min 20 above max 12 has returned 12, where clampValue
\* on the unclamped result returns 20
C27_Witness ==
  /\ call.op = "scale" /\ BothBounds(call.opts)
  /\ Lt(call.opts[1].max[1], call.opts[1].min[1])
  /\ call.size > 0
  /\ call.result = call.opts[1].max[1]
  /\ clampValue(call.opts[1].min[1], scale(call.size, <<>>), call.opts[1].max[1])
       = call.opts[1].min[1]
====
